---- MODULE Spec2Model ----
(***************************************************************************)
(* A model of WasteWrangler (waste_wrangler.py): connect, disconnect and    *)
(* the six operations over the tables of the waste_wrangler schema, with   *)
(* the connection's transaction state (rows and views not yet committed,   *)
(* the failed-transaction state psycopg2 leaves after a pg.Error), and the *)
(* helper setup_more_data, which inserts its rows without a commit.        *)
(*                                                                         *)
(* Time stamps are minutes since 2000-01-01 00:00; a date is a day number  *)
(* (2023-05-04 is day 8524).  The tables are sets of rows: each has its    *)
(* key.  Route, TruckType, Truck, Employee, Driver and Facility are        *)
(* written by setup_more_data only; Trip, Maintenance and Technician are   *)
(* the tables the operations write.  Route.length is taken to be a         *)
(* non-integer numeric column, so that "length / 5" in SQL and in Python   *)
(* agree.                                                                  *)
(*                                                                         *)
(* setup() runs two SQL files that are not part of the source, the schema  *)
(* and ./waste_wrangler_data.sql.  The database it loads (the Base rows,   *)
(* the state of Init) is one on which the calls of test_preliminary return *)
(* what the test asserts; what the test leaves open (names, capacities,    *)
(* hire dates, further routes) is filled in.                               *)
(***************************************************************************)
EXTENDS Integers, Sequences, FiniteSets, TLC

VARIABLES
    conn,             \* self.connection: "none", "open" or "closed"
    trip,             \* table Trip as the connection sees it:
                      \*   rows [rid, tid, ttime, volume, eid1, eid2, fid]
    maintenance,      \* table Maintenance: rows [tid, eid, mdate]
    technician,       \* table Technician: rows [eid, trucktype]
    more,             \* the connection sees the rows of setup_more_data
    views,            \* views that exist in the connection's transaction
    aborted,          \* the connection's transaction is in the failed state
    savedTrip,        \* table Trip of the committed database
    savedMaintenance, \* table Maintenance of the committed database
    savedMore,        \* the rows of setup_more_data are committed
    savedViews,       \* views that exist in the committed database
    ret,              \* the last call: operation, arguments, result, raised
    fresh             \* the last call changed the database or the connection

db == <<conn, trip, maintenance, technician, more, views, aborted,
        savedTrip, savedMaintenance, savedMore, savedViews>>
vars == <<conn, trip, maintenance, technician, more, views, aborted,
          savedTrip, savedMaintenance, savedMore, savedViews, ret, fresh>>

(***************************************************************************)
(* Bounds of the model.                                                    *)
(***************************************************************************)
\* Trips the scheduling operations may add on top of the loaded ones.
MaxNewTrips == 3
\* Records in one qualifications file.
MaxBatch == 2
\* Trips the scheduling operations may add where every method is called.
FewNewTrips == 2

(***************************************************************************)
(* Program constants.                                                      *)
(***************************************************************************)
Speed == 5                 \* kph: trip hours = length / 5
BufferMinutes == 30        \* interval '0.5 hour'
MaintenanceAge == 90       \* days since the last maintenance
MaintenanceAhead == 10     \* days of look-ahead for scheduled maintenance
DayMinutes == 24 * 60
WorkStart == 8 * 60        \* 08:00
WorkEnd == 16 * 60         \* 16:00

(***************************************************************************)
(* The tables the operations only read.  The Base rows are those of the    *)
(* database setup() loads; the More rows are those setup_more_data         *)
(* inserts, with the ids, names and dates of its INSERT statements.        *)
(***************************************************************************)
\* TruckType(trucktype, wastetype): trucks 1 and 2 are "the only 2 trucks"
\* that collect plastic recycling, type 'C' collects compost
BaseTruckType == [A |-> "plastic recycling", B |-> "plastic recycling",
                  C |-> "compost", E |-> "aluminum containers"]
MoreTruckType == [F |-> "landfill", G |-> "electronic waste"]
FullTruckType == BaseTruckType @@ MoreTruckType
TruckType == IF more THEN FullTruckType ELSE BaseTruckType

\* Truck(tid, trucktype, capacity): truck 1 is taken before truck 2 and
\* truck 4 before truck 3
BaseTruck == (1 :> [trucktype |-> "A", capacity |-> 10])
          @@ (2 :> [trucktype |-> "B", capacity |-> 10])
          @@ (3 :> [trucktype |-> "C", capacity |-> 5])
          @@ (4 :> [trucktype |-> "C", capacity |-> 8])
          @@ (6 :> [trucktype |-> "E", capacity |-> 10])
          @@ (7 :> [trucktype |-> "E", capacity |-> 10])
MoreTruck == (111 :> [trucktype |-> "G", capacity |-> 20])
FullTruck == BaseTruck @@ MoreTruck
Truck == IF more THEN FullTruck ELSE BaseTruck

\* Route(rid, wastetype, length): route 1 runs from 8:00 to 11:00; no route
\* of the ids setup_more_data inserts, none with id 10, none for aluminum
BaseRoute == (1 :> [wastetype |-> "plastic recycling", length |-> 15])
          @@ (9 :> [wastetype |-> "compost", length |-> 0])
          @@ (14 :> [wastetype |-> "plastic recycling", length |-> 5])
          @@ (16 :> [wastetype |-> "plastic recycling", length |-> 15])
          @@ (17 :> [wastetype |-> "plastic recycling", length |-> 5])
          @@ (18 :> [wastetype |-> "compost", length |-> 15])
MoreRoute == (2 :> [wastetype |-> "plastic recycling", length |-> 10])
          @@ (3 :> [wastetype |-> "plastic recycling", length |-> 5])
          @@ (4 :> [wastetype |-> "plastic recycling", length |-> 10])
          @@ (5 :> [wastetype |-> "plastic recycling", length |-> 20])
          @@ (11 :> [wastetype |-> "aluminum containers", length |-> 5])
          @@ (12 :> [wastetype |-> "aluminum containers", length |-> 5])
          @@ (13 :> [wastetype |-> "aluminum containers", length |-> 5])
          @@ (15 :> [wastetype |-> "aluminum containers", length |-> 5])
          @@ (6 :> [wastetype |-> "compost", length |-> 5])
          @@ (7 :> [wastetype |-> "other", length |-> 20])
          @@ (8 :> [wastetype |-> "compost", length |-> 15])
FullRoute == BaseRoute @@ MoreRoute
Route == IF more THEN FullRoute ELSE BaseRoute

\* Facility(fid, wastetype): facility 1 is the first for plastic recycling
\* and not the only one, facility 5 takes aluminum containers
Facility == (1 :> "plastic recycling") @@ (2 :> "plastic recycling")
         @@ (3 :> "compost") @@ (4 :> "plastic recycling")
         @@ (5 :> "aluminum containers")

\* Employee(eid, name, hiredate); 2000-02-27 is day 57.  Employees 1 to 5
\* come before those of setup_more_data in the order of hire dates.
BaseEmployee == (1 :> [name |-> "Ann Ames", hiredate |-> 1])
             @@ (2 :> [name |-> "Bob Bell", hiredate |-> 1])
             @@ (3 :> [name |-> "Cy Cole", hiredate |-> 2])
             @@ (4 :> [name |-> "Di Dunn", hiredate |-> 3])
             @@ (5 :> [name |-> "Ed Epps", hiredate |-> 4])
             @@ (6 :> [name |-> "Fay Ford", hiredate |-> 4])
             @@ (7 :> [name |-> "Gus Gray", hiredate |-> 1])
             @@ (8 :> [name |-> "Hal Hill", hiredate |-> 2])
MoreEmployee == (10 :> [name |-> "Yiyu Li", hiredate |-> 57])
             @@ (11 :> [name |-> "Jiawei Shi", hiredate |-> 57])
             @@ (12 :> [name |-> "Angela Zhao", hiredate |-> 57])
             @@ (13 :> [name |-> "Mandy Ma", hiredate |-> 57])
             @@ (14 :> [name |-> "Millie Zhu", hiredate |-> 57])
FullEmployee == BaseEmployee @@ MoreEmployee
Employee == IF more THEN FullEmployee ELSE BaseEmployee

\* Driver(eid, trucktype).  Employees 2 and 4 are the drivers of type 'C'
\* ("no other driver can drive this trucktype"); employee 5 holds two
\* qualifications, one of them for the type of trucks 6 and 7.
BaseDriver == { [eid |-> 1, trucktype |-> "A"], [eid |-> 2, trucktype |-> "C"],
                [eid |-> 3, trucktype |-> "A"], [eid |-> 4, trucktype |-> "C"],
                [eid |-> 5, trucktype |-> "B"], [eid |-> 5, trucktype |-> "E"] }
\* DELETE FROM driver WHERE trucktype = 'C' AND eid = 4
LessDriver == { d \in BaseDriver : d.trucktype = "C" /\ d.eid = 4 }
MoreDriver == { [eid |-> 4, trucktype |-> "B"] }
                  \cup { [eid |-> e, trucktype |-> "E"] : e \in 10..14 }
FullDriver == (BaseDriver \ LessDriver) \cup MoreDriver
Driver == IF more THEN FullDriver ELSE BaseDriver

(***************************************************************************)
(* Dates and times.                                                        *)
(***************************************************************************)
At(date, minutes) == date * DayMinutes + minutes
DateOf(t) == t \div DayMinutes                      \* t::date
TripMinutes(length) == (length * 60) \div Speed     \* length / 5 hours
RouteEnd(rid, t) == t + TripMinutes(Route[rid].length)

Min(S) == CHOOSE x \in S : \A y \in S : x <= y
Max(S) == CHOOSE x \in S : \A y \in S : x >= y

RECURSIVE SortAsc(_)
SortAsc(S) == IF S = {} THEN <<>> ELSE <<Min(S)>> \o SortAsc(S \ {Min(S)})

RECURSIVE Perms(_)
Perms(S) == IF S = {} THEN {<<>>}
            ELSE UNION { { <<x>> \o p : p \in Perms(S \ {x}) } : x \in S }

(***************************************************************************)
(* Availability (the views of schedule_trip).                              *)
(***************************************************************************)
\* PostgreSQL's (s1, e1) OVERLAPS (s2, e2): each pair is ordered first; a
\* period is start <= t < end, or the single instant when start = end.
OVERLAPS(s1, e1, s2, e2) ==
    LET ts1 == IF s1 <= e1 THEN s1 ELSE e1
        te1 == IF s1 <= e1 THEN e1 ELSE s1
        ts2 == IF s2 <= e2 THEN s2 ELSE e2
        te2 == IF s2 <= e2 THEN e2 ELSE s2
    IN  IF ts1 > ts2 THEN ts1 < te2
        ELSE IF ts1 < ts2 THEN ts2 < te1
        ELSE TRUE

\* view notAval: the trips (joined with their route) whose period overlaps
\* (time - 0.5 hour, trip_end + 0.5 hour)
notAval(time, trip_end) ==
    { t \in trip : /\ t.rid \in DOMAIN Route
                   /\ OVERLAPS(time - BufferMinutes, trip_end + BufferMinutes,
                               t.ttime, RouteEnd(t.rid, t.ttime)) }

\* availableEmployees that looks at the trips' first driver column only
availableEmployees_eid1(time, trip_end) ==
    LET busy == notAval(time, trip_end)
        eid1s == { t.eid1 : t \in busy }
    IN  { d \in Driver : d.eid \notin eid1s }

\* view availableEmployees: the Driver rows of employees on no such trip
availableEmployees(time, trip_end) ==
    LET busy == notAval(time, trip_end)
        eid1s == { t.eid1 : t \in busy }
        eid2s == { t.eid2 : t \in busy }
    IN  { d \in Driver : d.eid \notin eid1s /\ d.eid \notin eid2s }

\* availableTrucks without the maintenance table
availableTrucks_nomaint(time, trip_end) ==
    LET tids == { t.tid : t \in notAval(time, trip_end) }
    IN  { tid \in DOMAIN Truck : tid \notin tids }

\* view availableTrucks: trucks on no such trip and not in maintenance that day
availableTrucks(time, trip_end) ==
    LET tids == { t.tid : t \in notAval(time, trip_end) }
        inMaintenance == { m.tid : m \in { x \in maintenance :
                                             x.mdate - DateOf(time) = 0 } }
    IN  { tid \in DOMAIN Truck : tid \notin tids /\ tid \notin inMaintenance }

(***************************************************************************)
(* schedule_trip                                                           *)
(***************************************************************************)
\* check 4 without the test of the trip's end
OutsideWorkingHours_start(time, trip_end) ==
    \/ time < At(DateOf(time), WorkStart)
    \/ time > At(DateOf(time), WorkEnd)

\* check 4: the trip does not fit the working hours of the day of <time>
OutsideWorkingHours(time, trip_end) ==
    \/ time < At(DateOf(time), WorkStart)
    \/ time > At(DateOf(time), WorkEnd)
    \/ trip_end > At(DateOf(time), WorkEnd)

\* check 3 comparing the time stamps instead of their dates
SameDayTrip_timestamp(rid, time) ==
    \E t \in trip : t.rid = rid /\ t.ttime - time = 0

\* check 3: a trip of this route exists on the calendar date of <time>
SameDayTrip(rid, time) ==
    \E t \in trip : t.rid = rid /\ DateOf(t.ttime) - DateOf(time) = 0

\* the facilities of a waste type, ORDER BY fid
FacilitiesFor(wastetype) ==
    SortAsc({ f \in DOMAIN Facility : Facility[f] = wastetype })

\* ORDER BY capacity, tid: the DESC left out
RECURSIVE OrderByCapacity_asc(_)
OrderByCapacity_asc(T) ==
    IF T = {} THEN <<>>
    ELSE LET best == CHOOSE x \in T : \A y \in T :
                        \/ Truck[x].capacity < Truck[y].capacity
                        \/ Truck[x].capacity = Truck[y].capacity /\ x <= y
         IN  <<best>> \o OrderByCapacity_asc(T \ {best})

\* ORDER BY capacity DESC, tid
RECURSIVE OrderByCapacity(_)
OrderByCapacity(T) ==
    IF T = {} THEN <<>>
    ELSE LET best == CHOOSE x \in T : \A y \in T :
                        \/ Truck[x].capacity > Truck[y].capacity
                        \/ Truck[x].capacity = Truck[y].capacity /\ x <= y
         IN  <<best>> \o OrderByCapacity(T \ {best})

\* the available trucks whose truck type carries the waste type of the route
BestTrucks(rid, time, trip_end) ==
    OrderByCapacity({ tid \in availableTrucks(time, trip_end) :
                        TruckType[Truck[tid].trucktype] = Route[rid].wastetype })

\* employees ORDER BY hiredate, eid
RECURSIVE OrderByHire(_)
OrderByHire(E) ==
    IF E = {} THEN <<>>
    ELSE LET first == CHOOSE x \in E : \A y \in E :
                        \/ Employee[x].hiredate < Employee[y].hiredate
                        \/ Employee[x].hiredate = Employee[y].hiredate /\ x <= y
         IN  <<first>> \o OrderByHire(E \ {first})

\* The (eid, trucktype) rows of D ordered by hiredate, eid.  The rows of one
\* employee tie under that order: the database may return them in any order.
RECURSIVE RowOrders(_, _)
RowOrders(eids, D) ==
    IF eids = <<>> THEN {<<>>}
    ELSE { p \o r : p \in Perms({ d \in D : d.eid = Head(eids) }),
                    r \in RowOrders(Tail(eids), D) }

EmployeeRows(D) ==
    RowOrders(OrderByHire({ d.eid : d \in D } \cap DOMAIN Employee), D)

\* the scan without the test of the row's truck type
RECURSIVE ScanQualified_any(_, _, _, _)
ScanQualified_any(rows, k, trucktype, eid) ==
    IF k > Len(rows) THEN 0
    ELSE IF rows[k].eid # eid THEN k
    ELSE ScanQualified_any(rows, k + 1, trucktype, eid)

\* the while loop over the rest of the cursor: the first row from index k on
\* that can drive <trucktype> and is not the first employee; 0 when none
RECURSIVE ScanQualified(_, _, _, _)
ScanQualified(rows, k, trucktype, eid) ==
    IF k > Len(rows) THEN 0
    ELSE IF rows[k].trucktype = trucktype /\ rows[k].eid # eid THEN k
    ELSE ScanQualified(rows, k + 1, trucktype, eid)

\* best_e_one and best_e_two of schedule_trip, for a non-empty cursor.
\* "raise": best_e_two is None where the INSERT's parameters are built.
BestEmployees(rows, trucktype) ==
    IF rows[1].trucktype = trucktype
    THEN IF Len(rows) >= 2
         THEN [kind |-> "pair", one |-> rows[1].eid, two |-> rows[2].eid]
         ELSE [kind |-> "raise"]
    ELSE LET k == ScanQualified(rows, 2, trucktype, rows[1].eid)
         IN  IF k = 0 THEN [kind |-> "none"]
             ELSE [kind |-> "pair", one |-> rows[1].eid, two |-> rows[k].eid]

\* the INSERT with the start of the buffered window in place of <time>
TripRow_window(rid, tid, ttime, e_one, e_two, fid) ==
    [rid |-> rid, tid |-> tid, ttime |-> ttime - BufferMinutes, volume |-> "NULL",
     eid1 |-> IF e_one >= e_two THEN e_one ELSE e_two,
     eid2 |-> IF e_one >= e_two THEN e_two ELSE e_one,
     fid |-> fid]

TripRow(rid, tid, ttime, e_one, e_two, fid) ==
    [rid |-> rid, tid |-> tid, ttime |-> ttime, volume |-> "NULL",
     eid1 |-> IF e_one >= e_two THEN e_one ELSE e_two,
     eid2 |-> IF e_one >= e_two THEN e_two ELSE e_one,
     fid |-> fid]

TripViews == {"notAval", "availableEmployees", "availableTrucks"}

\* The ways one call of schedule_trip can end:
\*   "attribute" self.connection is None: an AttributeError leaves the method
\*   "closed"    the connection is closed: the pg.Error of cursor() is
\*               caught, False
\*   "error"     a pg.Error was caught: False, the transaction stays failed
\*   "rollback"  an early return after connection.rollback(): False
\*   "raise"     a TypeError leaves the method: the transaction stays open
\*   "commit"    the row was inserted and committed: True
schedule_trip(rid, time) ==
    IF conn = "none" THEN {[kind |-> "attribute"]}
    ELSE IF conn = "closed" THEN {[kind |-> "closed"]}
    ELSE IF aborted THEN {[kind |-> "error"]}
    ELSE IF rid \notin DOMAIN Route THEN {[kind |-> "rollback"]}
    ELSE LET trip_end == RouteEnd(rid, time) IN
    IF OutsideWorkingHours(time, trip_end) THEN {[kind |-> "rollback"]}
    ELSE IF SameDayTrip(rid, time) THEN {[kind |-> "rollback"]}
    ELSE IF FacilitiesFor(Route[rid].wastetype) = <<>> THEN {[kind |-> "rollback"]}
    ELSE IF views \cap TripViews # {} THEN {[kind |-> "error"]}
    ELSE LET best_f == FacilitiesFor(Route[rid].wastetype)[1]
             trucks == BestTrucks(rid, time, trip_end)
         IN
    IF trucks = <<>> THEN {[kind |-> "rollback"]}
    ELSE { IF rows = <<>> THEN [kind |-> "rollback"]
           ELSE LET best == BestEmployees(rows, Truck[trucks[1]].trucktype) IN
           IF best.kind = "none" THEN [kind |-> "rollback"]
           ELSE IF best.kind = "raise" THEN [kind |-> "raise"]
           ELSE [kind |-> "commit",
                 row |-> TripRow(rid, trucks[1], time, best.one, best.two, best_f)]
           : rows \in EmployeeRows(availableEmployees(time, trip_end)) }

(***************************************************************************)
(* schedule_trips                                                          *)
(***************************************************************************)
\* part 1: the routes of the truck's waste type with no trip on <date>,
\* ORDER BY rid
aval_route(wastetype, date) ==
    SortAsc({ rid \in DOMAIN Route :
                /\ Route[rid].wastetype = wastetype
                /\ rid \notin { t.rid : t \in { x \in trip :
                                    DateOf(x.ttime) - date = 0 } } })

\* view AvalDriver: the drivers on no trip at all on <date>
AvalDriver(date) ==
    ({ d.eid : d \in Driver }
        \ { t.eid1 : t \in { x \in trip : DateOf(x.ttime) - date = 0 } })
        \ { t.eid2 : t \in { x \in trip : DateOf(x.ttime) - date = 0 } }

\* SELECT DISTINCT eid, trucktype, hiredate ... ORDER BY hiredate, eid
DriverRows(date) ==
    EmployeeRows({ d \in Driver : d.eid \in AvalDriver(date) })

\* d_one and d_two of schedule_trips, for a cursor of at least two rows
BatchDrivers(rows, trucktype) ==
    IF rows[1].trucktype = trucktype
    THEN [kind |-> "pair", one |-> rows[1].eid, two |-> rows[2].eid]
    ELSE LET k == ScanQualified(rows, 2, trucktype, rows[1].eid)
         IN  IF k = 0 THEN [kind |-> "none"]
             ELSE [kind |-> "pair", one |-> rows[1].eid, two |-> rows[k].eid]

\* a route is inserted when its end is within the working hours
WithinWorkingHours(end_time, off_time) == end_time < off_time

\* the loop with the next start at the end of the trip, without the half hour
RECURSIVE PackLoop_nogap(_, _, _, _, _, _, _)
PackLoop_nogap(routes, i, start_time, off_time, working_hrs, proto, rows) ==
    IF ~(working_hrs /\ i < Len(routes)) THEN [i |-> i, rows |-> rows]
    ELSE LET end_time == RouteEnd(routes[i + 1], start_time)
             fits == WithinWorkingHours(end_time, off_time)
         IN  PackLoop_nogap(routes, i + 1, end_time, off_time, fits, proto,
                      IF fits
                      THEN rows \cup {[proto EXCEPT !.rid = routes[i + 1],
                                                    !.ttime = start_time]}
                      ELSE rows)

\* part 3: the while loop.  i counts the routes the loop has gone through,
\* start_time is the start of route i + 1, rows are the rows inserted so far.
RECURSIVE PackLoop(_, _, _, _, _, _, _)
PackLoop(routes, i, start_time, off_time, working_hrs, proto, rows) ==
    IF ~(working_hrs /\ i < Len(routes)) THEN [i |-> i, rows |-> rows]
    ELSE LET end_time == RouteEnd(routes[i + 1], start_time)
             fits == WithinWorkingHours(end_time, off_time)
         IN  PackLoop(routes, i + 1, end_time + BufferMinutes, off_time, fits,
                      proto,
                      IF fits
                      THEN rows \cup {[proto EXCEPT !.rid = routes[i + 1],
                                                    !.ttime = start_time]}
                      ELSE rows)

\* the value schedule_trips returns after the loop
PackResult(pack) == pack.i

BatchViews == {"AvalDriver"}

\* The ways one call of schedule_trips can end ("error": False, that is 0).
schedule_trips(tid, date) ==
    IF conn = "none" THEN {[kind |-> "attribute"]}
    ELSE IF conn = "closed" THEN {[kind |-> "closed"]}
    ELSE IF aborted THEN {[kind |-> "error"]}
    ELSE IF tid \notin DOMAIN Truck THEN {[kind |-> "rollback"]}
    ELSE LET target_truck == [trucktype |-> Truck[tid].trucktype,
                              wastetype |-> TruckType[Truck[tid].trucktype]]
             routes == aval_route(target_truck.wastetype, date)
         IN
    IF routes = <<>> THEN {[kind |-> "rollback"]}
    ELSE IF views \cap BatchViews # {} THEN {[kind |-> "error"]}
    ELSE { IF Len(rows) < 2 THEN [kind |-> "rollback"]
           ELSE LET d == BatchDrivers(rows, target_truck.trucktype) IN
           IF d.kind = "none" THEN [kind |-> "rollback"]
           ELSE IF FacilitiesFor(target_truck.wastetype) = <<>>
                THEN [kind |-> "rollback"]
           ELSE [kind |-> "commit",
                 pack |-> PackLoop(routes, 0, At(date, WorkStart),
                            At(date, WorkEnd), TRUE,
                            TripRow(0, tid, 0, d.one, d.two,
                                    FacilitiesFor(target_truck.wastetype)[1]),
                            {})]
           : rows \in DriverRows(date) }

(***************************************************************************)
(* update_technicians                                                      *)
(***************************************************************************)
\* SELECT eid FROM employee WHERE name = first || ' ' || last
EmployeesNamed(first, last) ==
    { e \in DOMAIN Employee : Employee[e].name = first \o " " \o last }

\* the validation without the test of the driver table
ValidEntry_nodriver(input, tech) ==
    /\ input.trucktype \in DOMAIN TruckType
    /\ EmployeesNamed(input.first, input.last) # {}
    /\ LET eid == Min(EmployeesNamed(input.first, input.last)) IN
        [eid |-> eid, trucktype |-> input.trucktype] \notin tech

\* whether one entry of the file is valid, against the table so far
ValidEntry(input, tech) ==
    /\ input.trucktype \in DOMAIN TruckType
    /\ EmployeesNamed(input.first, input.last) # {}
    /\ LET eid == Min(EmployeesNamed(input.first, input.last)) IN
        /\ [eid |-> eid, trucktype |-> input.trucktype] \notin tech
        /\ eid \notin { d.eid : d \in Driver }

\* the for loop validating each entry against the table as it was before the
\* call
RECURSIVE ImportLoop_stale(_, _, _, _)
ImportLoop_stale(content, k, tech, valid_entries) ==
    IF k > Len(content) THEN [tech |-> tech, valid_entries |-> valid_entries]
    ELSE IF ValidEntry(content[k], technician)
         THEN ImportLoop_stale(content, k + 1,
                  tech \cup {[eid |-> Min(EmployeesNamed(content[k].first,
                                                         content[k].last)),
                              trucktype |-> content[k].trucktype]},
                  valid_entries + 1)
         ELSE ImportLoop_stale(content, k + 1, tech, valid_entries)

\* the for loop: the table and the count after entries k .. Len(content)
RECURSIVE ImportLoop(_, _, _, _)
ImportLoop(content, k, tech, valid_entries) ==
    IF k > Len(content) THEN [tech |-> tech, valid_entries |-> valid_entries]
    ELSE IF ValidEntry(content[k], tech)
         THEN ImportLoop(content, k + 1,
                  tech \cup {[eid |-> Min(EmployeesNamed(content[k].first,
                                                         content[k].last)),
                              trucktype |-> content[k].trucktype]},
                  valid_entries + 1)
         ELSE ImportLoop(content, k + 1, tech, valid_entries)

\* With an empty file no statement runs before connection.commit(), which
\* ends a failed transaction too: as a rollback.
update_technicians(content) ==
    IF conn = "none" THEN [kind |-> "attribute"]
    ELSE IF conn = "closed" THEN [kind |-> "closed"]
    ELSE IF aborted /\ content # <<>> THEN [kind |-> "error"]
    ELSE IF aborted THEN [kind |-> "rollback"]
    ELSE [kind |-> "commit",
          loop |-> ImportLoop(content, 1, technician, 0)]

(***************************************************************************)
(* workmate_sphere                                                         *)
(***************************************************************************)
\* the first SELECT of the union only
WorkmatesExcept_eid2(e, x) ==
    { t.eid1 : t \in { r \in trip : r.eid2 = e /\ r.eid1 # x } }

\* (SELECT eid1 FROM trip WHERE eid2 = e AND eid1 <> x) UNION
\* (SELECT eid2 FROM trip WHERE eid1 = e AND eid2 <> x)
WorkmatesExcept(e, x) ==
    { t.eid1 : t \in { r \in trip : r.eid2 = e /\ r.eid1 # x } }
        \cup { t.eid2 : t \in { r \in trip : r.eid1 = e /\ r.eid2 # x } }

\* the first layer: everyone on a trip with eid
direct_workmate(eid) ==
    { t.eid1 : t \in { r \in trip : r.eid2 = eid } }
        \cup { t.eid2 : t \in { r \in trip : r.eid1 = eid } }

\* the result set: the first layer and, for each of its members, the second
SphereResult(eid) ==
    direct_workmate(eid)
        \cup UNION { WorkmatesExcept(e, eid) : e \in direct_workmate(eid) }

workmate_sphere(eid) ==
    IF conn = "none" THEN [kind |-> "attribute", result |-> {}]
    ELSE IF conn = "closed" THEN [kind |-> "closed", result |-> {}]
    ELSE IF aborted THEN [kind |-> "error", result |-> {}]
    ELSE IF eid \notin { d.eid : d \in Driver }
    THEN [kind |-> "rollback", result |-> {}]
    ELSE IF direct_workmate(eid) = {} THEN [kind |-> "rollback", result |-> {}]
    ELSE [kind |-> "commit", result |-> SphereResult(eid)]

(***************************************************************************)
(* schedule_maintenance                                                    *)
(***************************************************************************)
\* the query with "< 90" in place of "<= 90"
trucks_to_maintain_lt(date) ==
    ({ m.tid : m \in maintenance }
        \ { m.tid : m \in { x \in maintenance :
                              date - x.mdate < MaintenanceAge } })
        \ { m.tid : m \in { x \in maintenance :
                              /\ x.mdate - date <= MaintenanceAhead
                              /\ x.mdate - date > 0 } }

\* the query that sets aside the records of the 90 days up to <date> and of
\* the days <date> + 2 .. <date> + 10 only
trucks_to_maintain_past(date) ==
    ({ m.tid : m \in maintenance }
        \ { m.tid : m \in { x \in maintenance :
                              /\ date - x.mdate <= MaintenanceAge
                              /\ date - x.mdate >= 0 } })
        \ { m.tid : m \in { x \in maintenance :
                              /\ x.mdate - date <= MaintenanceAhead
                              /\ x.mdate - date > 0
                              /\ x.mdate - date > 1 } }

\* the trucks that need maintenance (a query with no ORDER BY)
trucks_to_maintain(date) ==
    ({ m.tid : m \in maintenance }
        \ { m.tid : m \in { x \in maintenance :
                              date - x.mdate <= MaintenanceAge } })
        \ { m.tid : m \in { x \in maintenance :
                              /\ x.mdate - date <= MaintenanceAhead
                              /\ x.mdate - date > 0 } }

\* the technicians of any truck type
TechniciansFor_anytype(tid) ==
    IF tid \notin DOMAIN Truck THEN {}
    ELSE { t.eid : t \in technician }

\* the technicians of the truck's type
TechniciansFor(tid) ==
    IF tid \notin DOMAIN Truck THEN {}
    ELSE { t.eid : t \in { x \in technician :
                             x.trucktype = Truck[tid].trucktype } }

\* ... looking at the table as it was before the call only
FreeTechnicians_before(tid, cur_date, maint) ==
    TechniciansFor(tid)
        \ { m.eid : m \in { x \in maintenance : cur_date - x.mdate = 0 } }

\* ... EXCEPT those with a maintenance on cur_date
FreeTechnicians(tid, cur_date, maint) ==
    TechniciansFor(tid) \ { m.eid : m \in { x \in maint : cur_date - x.mdate = 0 } }

\* the while loop of one truck with a technician of its type: the row inserted
RECURSIVE DaySearch(_, _, _)
DaySearch(tid, cur_date, maint) ==
    IF FreeTechnicians(tid, cur_date, maint) # {}
    THEN [tid |-> tid, eid |-> Min(FreeTechnicians(tid, cur_date, maint)),
          mdate |-> cur_date]
    ELSE DaySearch(tid, cur_date + 1, maint)

\* the for loop counting the trucks it leaves without a record too
RECURSIVE MaintainLoop_countall(_, _, _, _, _)
MaintainLoop_countall(trucks, k, date, maint, success) ==
    IF k > Len(trucks) THEN [maint |-> maint, success |-> success]
    ELSE IF TechniciansFor(trucks[k]) = {}
         THEN MaintainLoop_countall(trucks, k + 1, date, maint, success + 1)
         ELSE MaintainLoop_countall(trucks, k + 1, date,
                           maint \cup {DaySearch(trucks[k], date + 1, maint)},
                           success + 1)

\* the for loop over the trucks, in the order the query returned them
RECURSIVE MaintainLoop(_, _, _, _, _)
MaintainLoop(trucks, k, date, maint, success) ==
    IF k > Len(trucks) THEN [maint |-> maint, success |-> success]
    ELSE IF TechniciansFor(trucks[k]) = {}
         THEN MaintainLoop(trucks, k + 1, date, maint, success)
         ELSE MaintainLoop(trucks, k + 1, date,
                           maint \cup {DaySearch(trucks[k], date + 1, maint)},
                           success + 1)

schedule_maintenance(date) ==
    IF conn = "none" THEN {[kind |-> "attribute"]}
    ELSE IF conn = "closed" THEN {[kind |-> "closed"]}
    ELSE IF aborted THEN {[kind |-> "error"]}
    ELSE IF trucks_to_maintain(date) = {} THEN {[kind |-> "rollback"]}
    ELSE { [kind |-> "commit",
            loop |-> MaintainLoop(trucks, 1, date, maintenance, 0)]
           : trucks \in Perms(trucks_to_maintain(date)) }

(***************************************************************************)
(* reroute_waste                                                           *)
(***************************************************************************)
trips_to_reroute(fid, date) ==
    { t \in trip : t.fid = fid /\ DateOf(t.ttime) - date = 0 }

\* the other facilities, whatever their waste type
AlternateFacilities_any(fid) ==
    IF fid \notin DOMAIN Facility THEN <<>>
    ELSE SortAsc({ f \in DOMAIN Facility : f # fid })

\* the other facilities of the waste type of fid, ORDER BY fid
AlternateFacilities(fid) ==
    IF fid \notin DOMAIN Facility THEN <<>>
    ELSE SortAsc({ f \in DOMAIN Facility :
                     Facility[f] = Facility[fid] /\ f # fid })

\* the UPDATE without the test of the date
Rerouted_anydate(fid, date, alter_f) ==
    { IF t.fid = fid THEN [t EXCEPT !.fid = alter_f] ELSE t : t \in trip }

\* a DELETE of the matching trips in place of the UPDATE
Rerouted_delete(fid, date, alter_f) ==
    trip \ trips_to_reroute(fid, date)

\* UPDATE trip SET fid = alter_f WHERE fid = fid AND ttime::date = date
Rerouted(fid, date, alter_f) ==
    { IF t \in trips_to_reroute(fid, date) THEN [t EXCEPT !.fid = alter_f] ELSE t
      : t \in trip }

reroute_waste(fid, date) ==
    IF conn = "none" THEN [kind |-> "attribute"]
    ELSE IF conn = "closed" THEN [kind |-> "closed"]
    ELSE IF aborted THEN [kind |-> "error"]
    ELSE IF trips_to_reroute(fid, date) = {} THEN [kind |-> "rollback"]
    ELSE IF AlternateFacilities(fid) = <<>> THEN [kind |-> "rollback"]
    ELSE [kind |-> "commit",
          trip |-> Rerouted(fid, date, AlternateFacilities(fid)[1]),
          result |-> Cardinality(trips_to_reroute(fid, date))]

(***************************************************************************)
(* The rows setup() and setup_more_data load, and the arguments tried.     *)
(***************************************************************************)
\* the Trip table of the data file: one trip on 2023-05-03, of route 1 to
\* facility 1, with drivers 3 and 2 (no operation reads the volume)
BaseTrips ==
    { [rid |-> 1, tid |-> 1, ttime |-> At(8523, 8 * 60), volume |-> "NULL",
       eid1 |-> 3, eid2 |-> 2, fid |-> 1] }

\* the Maintenance table of the data file: the last records of trucks 1, 2,
\* 4, 6 and 7 are more than 90 days before 2022-09-15 (day 8293), that of
\* truck 1 by one day
BaseMaintenance ==
    { [tid |-> 1, eid |-> 6, mdate |-> 8202], [tid |-> 2, eid |-> 7, mdate |-> 8198],
      [tid |-> 4, eid |-> 7, mdate |-> 8200], [tid |-> 6, eid |-> 8, mdate |-> 8201],
      [tid |-> 7, eid |-> 8, mdate |-> 8199] }

\* the Technician table of the data file: four of those five trucks have a
\* technician of their type, trucks 6 and 7 the same one
BaseTechnicians ==
    { [eid |-> 6, trucktype |-> "A"], [eid |-> 7, trucktype |-> "C"],
      [eid |-> 8, trucktype |-> "E"] }

\* INSERT INTO trip: four trips at 08:00, two on 2023-05-04 and two on
\* 2023-05-05, on trucks 6 and 7; employee 12 is on both trips of the first
\* day and employee 10 on both of the second
LoadedTrips ==
    { [rid |-> 15, tid |-> 6, ttime |-> At(8524, 8 * 60), volume |-> "NULL",
       eid1 |-> 12, eid2 |-> 11, fid |-> 5],
      [rid |-> 11, tid |-> 7, ttime |-> At(8524, 8 * 60), volume |-> "NULL",
       eid1 |-> 13, eid2 |-> 12, fid |-> 5],
      [rid |-> 12, tid |-> 6, ttime |-> At(8525, 8 * 60), volume |-> "NULL",
       eid1 |-> 11, eid2 |-> 10, fid |-> 5],
      [rid |-> 13, tid |-> 7, ttime |-> At(8525, 8 * 60), volume |-> "NULL",
       eid1 |-> 14, eid2 |-> 10, fid |-> 5] }

\* the dates of the loaded trips: 2023-05-04 and 2023-05-05
LoadedDate == { DateOf(t.ttime) : t \in LoadedTrips }

\* INSERT INTO maintenance VALUES (3, 7, '2022-09-25')
LoadedMaintenance ==
    { [tid |-> 3, eid |-> 7, mdate |-> 8303] }

\* the trips of T that no operation has inserted: those of the data file
\* and of setup_more_data, whatever facility they have been rerouted to
GivenTrips(T) ==
    { t \in T : \E g \in BaseTrips \cup LoadedTrips : [t EXCEPT !.fid = g.fid] = g }

\* the trips the operations have inserted
NewTrips == trip \ GivenTrips(trip)

\* the maintenance records schedule_maintenance has inserted
NewMaintenance == maintenance \ (BaseMaintenance \cup LoadedMaintenance)

\* single trips are asked for 2023-05-04, the first date of the loaded
\* trips, batches for both dates, reroutings for that date and the date of
\* the data file's trip, and maintenance for the day before the trips
\* (2023-05-03)
TripDates == { Min(LoadedDate) }
BatchDates == LoadedDate
RerouteDates == { DateOf(t.ttime) : t \in BaseTrips } \cup TripDates
TimesOfDay == { 7 * 60 + 30, 8 * 60, 11 * 60 + 30, 16 * 60, 16 * 60 + 30 }
RouteIds == {1, 7, 9, 10, 14, 18}
TruckIds == {1, 2, 3, 4, 6, 9}
EmployeeIds == DOMAIN FullEmployee \cup {9}
FacilityIds == {1, 3}
MaintenanceDates == { d - 1 : d \in TripDates }
Entries ==
    { [first |-> "Gus", last |-> "Gray", trucktype |-> "C"],
      [first |-> "Ann", last |-> "Ames", trucktype |-> "A"],
      [first |-> "Hal", last |-> "Hull", trucktype |-> "A"],
      [first |-> "Hal", last |-> "Hill", trucktype |-> "Z"],
      [first |-> "Hal", last |-> "Hill", trucktype |-> "C"],
      [first |-> "Gus", last |-> "Gray", trucktype |-> "B"] }

\* the dates tried on the maintenance backlog of the data file: 2022-09-14,
\* 90 days after the last record of truck 1, and 2022-09-15
BacklogDates == {8292, 8293}

RECURSIVE Files(_)
Files(n) == IF n = 0 THEN {<<>>}
            ELSE Files(n - 1) \cup
                 { Append(f, e) : f \in { g \in Files(n - 1) : Len(g) = n - 1 },
                                  e \in Entries }

(***************************************************************************)
(* The state machine: one action per method, one for setup and one for     *)
(* setup_more_data.                                                        *)
(***************************************************************************)
\* WasteWrangler(): no connection yet, on the database setup() loads
Init ==
    /\ conn = "none"
    /\ trip = BaseTrips /\ savedTrip = BaseTrips
    /\ maintenance = BaseMaintenance /\ savedMaintenance = BaseMaintenance
    /\ technician = BaseTechnicians
    /\ more = FALSE /\ savedMore = FALSE
    /\ views = {} /\ savedViews = {}
    /\ aborted = FALSE
    /\ ret = [op |-> "init", result |-> "None", raised |-> FALSE]
    /\ fresh = TRUE

\* the connection after a call that ended in <kind>, which created <made>
\* and dropped <dropped> on its way
ViewsAfter(kind, made, dropped) ==
    CASE kind = "commit" -> (views \cup made) \ dropped
      [] kind = "rollback" -> savedViews
      [] kind = "raise" -> views \cup made
      [] OTHER -> views

SavedViewsAfter(kind, made, dropped) ==
    IF kind = "commit" THEN (views \cup made) \ dropped ELSE savedViews

AbortedAfter(kind) ==
    CASE kind = "error" -> TRUE
      [] kind \in {"commit", "rollback"} -> FALSE
      [] OTHER -> aborted

\* the kinds in which an exception leaves the method
Raising == {"raise", "attribute"}

\* The tables after a call that ended in <kind> with the tables new_trip and
\* new_maintenance in its transaction: connection.commit() makes them, and
\* the rows of setup_more_data that are in the transaction, the committed
\* ones; connection.rollback() goes back to the committed ones; otherwise
\* the transaction stays as it is.
Transaction(kind, new_trip, new_maintenance, made, dropped) ==
    /\ trip' = CASE kind = "commit" -> new_trip
                 [] kind = "rollback" -> savedTrip
                 [] OTHER -> trip
    /\ savedTrip' = IF kind = "commit" THEN new_trip ELSE savedTrip
    /\ maintenance' = CASE kind = "commit" -> new_maintenance
                        [] kind = "rollback" -> savedMaintenance
                        [] OTHER -> maintenance
    /\ savedMaintenance' = IF kind = "commit" THEN new_maintenance
                           ELSE savedMaintenance
    /\ more' = IF kind = "rollback" THEN savedMore ELSE more
    /\ savedMore' = IF kind = "commit" THEN more ELSE savedMore
    /\ views' = ViewsAfter(kind, made, dropped)
    /\ savedViews' = SavedViewsAfter(kind, made, dropped)
    /\ aborted' = AbortedAfter(kind)
    /\ conn' = conn

\* connect: pg.connect gives a new connection, on the committed database;
\* the connection it replaces is dropped with what it had not committed.
\* When pg.connect fails (ok = FALSE) self.connection stays as it is.
Connect(ok) ==
    /\ IF ok
       THEN /\ conn' = "open"
            /\ trip' = savedTrip
            /\ maintenance' = savedMaintenance
            /\ more' = savedMore
            /\ views' = savedViews
            /\ aborted' = FALSE
       ELSE UNCHANGED <<conn, trip, maintenance, more, views, aborted>>
    /\ ret' = [op |-> "connect", result |-> ok, raised |-> FALSE]
    /\ UNCHANGED <<technician, savedTrip, savedMaintenance, savedMore,
                   savedViews>>

\* disconnect: an open connection is closed, and what it had not committed
\* is gone; True also without a connection and on a closed one
Disconnect ==
    /\ IF conn = "open"
       THEN /\ conn' = "closed"
            /\ trip' = savedTrip
            /\ maintenance' = savedMaintenance
            /\ more' = savedMore
            /\ views' = savedViews
            /\ aborted' = FALSE
       ELSE UNCHANGED <<conn, trip, maintenance, more, views, aborted>>
    /\ ret' = [op |-> "disconnect", result |-> TRUE, raised |-> FALSE]
    /\ UNCHANGED <<technician, savedTrip, savedMaintenance, savedMore,
                   savedViews>>

\* rows of setup_more_data are in the connection's transaction, uncommitted
Pending == \/ trip # savedTrip
           \/ maintenance # savedMaintenance
           \/ more # savedMore

\* the WasteWrangler's connection has a transaction in progress that holds
\* locks: one that has not failed, with rows or views that are not
\* committed.  A failed transaction holds none: the database released them
\* when the statement failed.
InTransaction ==
    conn = "open" /\ ~aborted /\ (Pending \/ views # savedViews)

\* setup: on a connection of its own it runs the schema file, which is
\* taken to drop and create the schema again (test_preliminary calls setup
\* on a database that is loaded already), and the data file, and commits:
\* the committed database is that of the data file, and the WasteWrangler's
\* connection sees it from its next transaction on (a failed transaction
\* stays failed, and what it had not committed is gone).  While that
\* connection has a transaction in progress that holds locks, setup waits
\* for them and does not return: no step.  When pg.connect or a file fails
\* (ok = FALSE) setup raises at once, whatever the state, and changes
\* nothing.
Setup(ok) ==
    /\ IF ok
       THEN /\ ~InTransaction
            /\ trip' = BaseTrips /\ savedTrip' = BaseTrips
            /\ maintenance' = BaseMaintenance
            /\ savedMaintenance' = BaseMaintenance
            /\ technician' = BaseTechnicians
            /\ more' = FALSE /\ savedMore' = FALSE
            /\ views' = {} /\ savedViews' = {}
       ELSE UNCHANGED <<trip, savedTrip, maintenance, savedMaintenance,
                        technician, more, savedMore, views, savedViews>>
    /\ ret' = [op |-> "setup", result |-> "None", raised |-> ~ok]
    /\ UNCHANGED <<conn, aborted>>

\* setup_more_data: one execute of all its statements and no commit.  It has
\* no except clause: without a connection, on a closed one and in a failed
\* transaction the exception leaves it; so it does when the rows are there
\* already (the first INSERT meets its own row), and the transaction is
\* failed from then on.
SetupMoreData ==
    /\ IF conn = "open" /\ ~aborted /\ ~more
       THEN /\ more' = TRUE
            /\ trip' = trip \cup LoadedTrips
            /\ maintenance' = maintenance \cup LoadedMaintenance
            /\ aborted' = FALSE
            /\ ret' = [op |-> "setup_more_data", result |-> "None",
                       raised |-> FALSE]
       ELSE /\ aborted' = (aborted \/ conn = "open")
            /\ ret' = [op |-> "setup_more_data", result |-> "None",
                       raised |-> TRUE]
            /\ UNCHANGED <<more, trip, maintenance>>
    /\ UNCHANGED <<conn, technician, views, savedTrip, savedMaintenance,
                   savedMore, savedViews>>

ScheduleTrip(rid, time) ==
    \E o \in schedule_trip(rid, time) :
        /\ Transaction(o.kind,
                       IF o.kind = "commit" THEN trip \cup {o.row} ELSE trip,
                       maintenance, TripViews, TripViews)
        /\ Cardinality(trip' \ GivenTrips(trip')) <= MaxNewTrips
        /\ ret' = [op |-> "schedule_trip", rid |-> rid, time |-> time,
                   result |-> (o.kind = "commit"),
                   raised |-> (o.kind \in Raising)]
        /\ UNCHANGED technician

ScheduleTrips(tid, date) ==
    \E o \in schedule_trips(tid, date) :
        /\ Transaction(o.kind,
                       IF o.kind = "commit" THEN trip \cup o.pack.rows ELSE trip,
                       maintenance, BatchViews, {})
        /\ Cardinality(trip' \ GivenTrips(trip')) <= MaxNewTrips
        /\ ret' = [op |-> "schedule_trips", tid |-> tid, date |-> date,
                   result |-> IF o.kind = "commit" THEN PackResult(o.pack) ELSE 0,
                   raised |-> (o.kind \in Raising)]
        /\ UNCHANGED technician

UpdateTechnicians(content) ==
    LET o == update_technicians(content) IN
        /\ Transaction(o.kind, trip, maintenance, {}, {})
        /\ technician' = IF o.kind = "commit" THEN o.loop.tech ELSE technician
        /\ ret' = [op |-> "update_technicians", content |-> content,
                   result |-> IF o.kind = "commit" THEN o.loop.valid_entries ELSE 0,
                   raised |-> (o.kind \in Raising)]

WorkmateSphere(eid) ==
    LET o == workmate_sphere(eid) IN
        /\ Transaction(o.kind, trip, maintenance, {}, {})
        /\ ret' = [op |-> "workmate_sphere", eid |-> eid, result |-> o.result,
                   raised |-> (o.kind \in Raising)]
        /\ UNCHANGED technician

ScheduleMaintenance(date) ==
    \E o \in schedule_maintenance(date) :
        /\ Transaction(o.kind, trip,
                       IF o.kind = "commit" THEN o.loop.maint ELSE maintenance,
                       {}, {})
        /\ ret' = [op |-> "schedule_maintenance", date |-> date,
                   result |-> IF o.kind = "commit" THEN o.loop.success ELSE 0,
                   raised |-> (o.kind \in Raising)]
        /\ UNCHANGED technician

RerouteWaste(fid, date) ==
    LET o == reroute_waste(fid, date) IN
        /\ Transaction(o.kind, IF o.kind = "commit" THEN o.trip ELSE trip,
                       maintenance, {}, {})
        /\ ret' = [op |-> "reroute_waste", fid |-> fid, date |-> date,
                   result |-> IF o.kind = "commit" THEN o.result ELSE 0,
                   raised |-> (o.kind \in Raising)]
        /\ UNCHANGED technician

\* A call that leaves the database and the connection as they were ends in a
\* state from which exactly the calls of the state before it can follow, with
\* the same effects: the model goes on from the state before it only.
Step(Call) == fresh /\ Call /\ fresh' = (db' # db)

\* Every call: connect, disconnect, setup, setup_more_data and the six
\* operations, each with a few arguments.
FewRoutes == {1, 9, 18}
FewTimes == { 8 * 60 }
FewTrucks == {1, 3}
FewFiles == { <<>>, <<[first |-> "Hal", last |-> "Hill", trucktype |-> "C"]>>,
              <<[first |-> "Ann", last |-> "Ames", trucktype |-> "A"]>> }
FewEmployees == {1, 3, 9}

Next ==
    \/ \E ok \in BOOLEAN : Step(Connect(ok))
    \/ Step(Disconnect)
    \/ \E ok \in BOOLEAN : Step(Setup(ok))
    \/ Step(SetupMoreData)
    \/ \E rid \in FewRoutes, date \in TripDates, tod \in FewTimes :
          /\ Step(ScheduleTrip(rid, At(date, tod)))
          /\ Cardinality(trip' \ GivenTrips(trip')) <= FewNewTrips
    \/ \E tid \in FewTrucks, date \in TripDates :
          /\ Step(ScheduleTrips(tid, date))
          /\ Cardinality(trip' \ GivenTrips(trip')) <= FewNewTrips
    \/ \E content \in FewFiles : Step(UpdateTechnicians(content))
    \/ \E eid \in FewEmployees : Step(WorkmateSphere(eid))
    \/ \E date \in MaintenanceDates : Step(ScheduleMaintenance(date))
    \/ \E fid \in FacilityIds, date \in RerouteDates : Step(RerouteWaste(fid, date))

Spec == Init /\ [][Next]_vars

\* The calls that make and move trips, with more routes, times and trucks:
\* Next without update_technicians, workmate_sphere and
\* schedule_maintenance.
NextTrips ==
    \/ \E ok \in BOOLEAN : Step(Connect(ok))
    \/ Step(Disconnect)
    \/ Step(Setup(TRUE))
    \/ Step(SetupMoreData)
    \/ \E rid \in RouteIds, date \in TripDates, tod \in TimesOfDay :
          Step(ScheduleTrip(rid, At(date, tod)))
    \/ \E tid \in TruckIds, date \in BatchDates : Step(ScheduleTrips(tid, date))
    \/ \E fid \in FacilityIds, date \in TripDates : Step(RerouteWaste(fid, date))

SpecTrips == Init /\ [][NextTrips]_vars

\* Trips on days with maintenance: connect, disconnect, setup,
\* setup_more_data, schedule_maintenance and the two operations that insert
\* trips, schedule_trip at every time of day tried.
NextUpkeep ==
    \/ \E ok \in BOOLEAN : Step(Connect(ok))
    \/ Step(Disconnect)
    \/ \E ok \in BOOLEAN : Step(Setup(ok))
    \/ Step(SetupMoreData)
    \/ \E rid \in FewRoutes, date \in TripDates, tod \in TimesOfDay :
          /\ Step(ScheduleTrip(rid, At(date, tod)))
          /\ Cardinality(trip' \ GivenTrips(trip')) <= FewNewTrips
    \/ \E tid \in FewTrucks, date \in TripDates :
          /\ Step(ScheduleTrips(tid, date))
          /\ Cardinality(trip' \ GivenTrips(trip')) <= FewNewTrips
    \/ \E date \in MaintenanceDates : Step(ScheduleMaintenance(date))

SpecUpkeep == Init /\ [][NextUpkeep]_vars

\* The trips and the workmate graph they make: connect, setup_more_data,
\* the two operations that insert trips, and workmate_sphere.
NextSphere ==
    \/ Step(Connect(TRUE))
    \/ Step(SetupMoreData)
    \/ \E rid \in RouteIds, date \in TripDates, tod \in TimesOfDay :
          Step(ScheduleTrip(rid, At(date, tod)))
    \/ \E tid \in TruckIds, date \in BatchDates : Step(ScheduleTrips(tid, date))
    \/ \E eid \in EmployeeIds : Step(WorkmateSphere(eid))

SpecSphere == Init /\ [][NextSphere]_vars

\* The technicians and the maintenance backlog: connect, setup,
\* setup_more_data, update_technicians and schedule_maintenance.
NextMaintenance ==
    \/ Step(Connect(TRUE))
    \/ Step(Setup(TRUE))
    \/ Step(SetupMoreData)
    \/ \E content \in Files(MaxBatch) : Step(UpdateTechnicians(content))
    \/ \E date \in BacklogDates : Step(ScheduleMaintenance(date))

SpecMaintenance == Init /\ [][NextMaintenance]_vars

(***************************************************************************)
(* Properties.                                                             *)
(***************************************************************************)
TripEnd(t) == RouteEnd(t.rid, t.ttime)
DriversOf(t) == {t.eid1, t.eid2}
DriverIds == { d.eid : d \in Driver }
\* the last call was <op>, on an open connection, and it returned
Returned(op) == ret.op = op /\ ~ret.raised /\ conn = "open"

\* the six operations that read and write the tables
Operations == {"schedule_trip", "schedule_trips", "update_technicians",
               "workmate_sphere", "schedule_maintenance", "reroute_waste"}

\* the connection is open and its transaction has not failed
Ready == conn = "open" /\ ~aborted

\* C1: no trip an operation has inserted is closer than 30 minutes to
\* another trip of its truck: the window of one, extended by 30 minutes on
\* each side, does not meet the [start, end) window of the other.  (The
\* trips of the data file and of setup_more_data are taken as they are.)
TruckNoOverlap ==
    \A a \in NewTrips, b \in trip :
        (a # b /\ a.tid = b.tid)
            => ~(/\ a.ttime - BufferMinutes < TripEnd(b)
                 /\ b.ttime < TripEnd(a) + BufferMinutes)

\* C2: no trip an operation has inserted is closer than 30 minutes to
\* another trip that lists one of its employees: the window of one,
\* extended by 30 minutes on each side, does not meet the [start, end)
\* window of the other.  (The trips setup_more_data loads are taken as they
\* are: two of them, at the same hour, share an employee.)
DriverNoOverlap ==
    \A a \in NewTrips, b \in trip :
        (a # b /\ DriversOf(a) \cap DriversOf(b) # {})
            => ~(/\ a.ttime - BufferMinutes < TripEnd(b)
                 /\ b.ttime < TripEnd(a) + BufferMinutes)

\* C2 witness: a batch has put one pair of drivers on two trips of a day,
\* the second starting exactly 30 minutes after the end of the first.
DriverNoOverlapWitness ==
    /\ Returned("schedule_trips")
    /\ \E a, b \in NewTrips :
          /\ DriversOf(a) = DriversOf(b)
          /\ b.ttime = TripEnd(a) + BufferMinutes

\* C3: there is at most one trip per route and calendar date, and a
\* schedule_trip call for a route with a committed trip on the date of
\* <time> returns False and leaves the Trip table as it was.
OneTripPerRouteAndDate ==
    /\ [](\A a, b \in trip :
            (a.rid = b.rid /\ DateOf(a.ttime) = DateOf(b.ttime)) => a = b)
    /\ [][(/\ ret'.op = "schedule_trip" /\ ~Pending
           /\ \E t \in trip : /\ t.rid = ret'.rid
                              /\ DateOf(t.ttime) = DateOf(ret'.time))
          => (~ret'.raised /\ ret'.result = FALSE /\ trip' = trip)]_vars

\* C3 witness: schedule_trip has refused, within the working hours, a route
\* that has a trip at another time of the same day.
OneTripPerRouteAndDateWitness ==
    /\ Returned("schedule_trip") /\ ret.result = FALSE /\ ~aborted
    /\ ret.rid \in DOMAIN Route
    /\ ~OutsideWorkingHours(ret.time, RouteEnd(ret.rid, ret.time))
    /\ \E t \in NewTrips : /\ t.rid = ret.rid
                           /\ DateOf(t.ttime) = DateOf(ret.time)
                           /\ t.ttime # ret.time

\* C4: every trip starts at or after 08:00 and ends at or before 16:00 of
\* its day, and schedule_trip, called on a connection, returns False for a
\* start before 08:00, a start after 16:00 and an end after 16:00.
WorkingHours ==
    /\ \A t \in trip : /\ t.ttime >= At(DateOf(t.ttime), WorkStart)
                       /\ TripEnd(t) <= At(DateOf(t.ttime), WorkEnd)
    /\ (/\ ret.op = "schedule_trip" /\ conn # "none"
        /\ \/ ret.time < At(DateOf(ret.time), WorkStart)
           \/ ret.time > At(DateOf(ret.time), WorkEnd)
           \/ /\ ret.rid \in DOMAIN Route
              /\ RouteEnd(ret.rid, ret.time) > At(DateOf(ret.time), WorkEnd))
       => (~ret.raised /\ ret.result = FALSE)

\* C4 witness: with a trip that ends at 16:00 sharp in the table,
\* schedule_trip has refused a trip that starts in the working hours and
\* ends after 16:00.
WorkingHoursWitness ==
    /\ \E t \in NewTrips : TripEnd(t) = At(DateOf(t.ttime), WorkEnd)
    /\ Returned("schedule_trip") /\ ret.result = FALSE /\ ~aborted
    /\ ret.rid \in DOMAIN Route
    /\ ret.time >= At(DateOf(ret.time), WorkStart)
    /\ ret.time <= At(DateOf(ret.time), WorkEnd)
    /\ RouteEnd(ret.rid, ret.time) > At(DateOf(ret.time), WorkEnd)

\* C5: a schedule_trip call that returns False leaves Trip, Maintenance and
\* Technician as they were; one that returns True adds exactly one Trip row,
\* with the given route, the given start and a null volume.  (For calls in
\* a transaction that holds no uncommitted rows of setup_more_data: a call
\* that rolls back takes those with it.)
AllOrNothing ==
    [][(ret'.op = "schedule_trip" /\ ~ret'.raised /\ ~Pending)
       => IF ret'.result
          THEN /\ \E row \in trip' \ trip :
                     /\ trip' = trip \cup {row}
                     /\ row.rid = ret'.rid
                     /\ row.ttime = ret'.time
                     /\ row.volume = "NULL"
               /\ UNCHANGED <<maintenance, technician>>
          ELSE UNCHANGED <<trip, maintenance, technician>>]_vars

\* C5 witness: schedule_trip has returned False at its last test: the route
\* is valid, within the working hours and not on a trip that day, a facility
\* and a truck are there, and no pair of drivers is.
AllOrNothingWitness ==
    /\ Returned("schedule_trip") /\ ret.result = FALSE /\ ~aborted
    /\ views = {}
    /\ NewTrips # {}
    /\ ret.rid \in DOMAIN Route
    /\ ~OutsideWorkingHours(ret.time, RouteEnd(ret.rid, ret.time))
    /\ ~SameDayTrip(ret.rid, ret.time)
    /\ FacilitiesFor(Route[ret.rid].wastetype) # <<>>
    /\ BestTrucks(ret.rid, ret.time, RouteEnd(ret.rid, ret.time)) # <<>>
    /\ availableEmployees(ret.time, RouteEnd(ret.rid, ret.time)) # {}

\* C6: schedule_trip, called on an open connection, never raises, and
\* returns False when a facility and a truck are found and fewer than two
\* drivers are available in the window.
ScheduleTripNeverRaises ==
    [][(ret'.op = "schedule_trip" /\ conn = "open")
       => /\ ~ret'.raised
          /\ (/\ ~aborted
              /\ views \cap TripViews = {}
              /\ ret'.rid \in DOMAIN Route
              /\ ~OutsideWorkingHours(ret'.time, RouteEnd(ret'.rid, ret'.time))
              /\ ~SameDayTrip(ret'.rid, ret'.time)
              /\ FacilitiesFor(Route[ret'.rid].wastetype) # <<>>
              /\ BestTrucks(ret'.rid, ret'.time,
                            RouteEnd(ret'.rid, ret'.time)) # <<>>
              /\ Cardinality({ d.eid : d \in availableEmployees(ret'.time,
                                   RouteEnd(ret'.rid, ret'.time)) }) < 2)
             => ret'.result = FALSE]_vars

\* C7: schedule_trips returns the number of Trip rows it inserted.
ReturnsNumberInserted ==
    [][ret'.op = "schedule_trips"
       => ret'.result = Cardinality(trip' \ trip)]_vars

\* C8: for a driver, workmate_sphere (on an open connection whose
\* transaction has not failed) returns the employees reachable over
\* the trips' driver pairs at any number of hops, the driver left out.
SphereIsClosure ==
    LET RECURSIVE Reachable(_)
        Reachable(S) ==
            LET next == S \cup UNION { DriversOf(t) : t \in { r \in trip :
                                          DriversOf(r) \cap S # {} } }
            IN  IF next = S THEN S ELSE Reachable(next)
    IN  (ret.op = "workmate_sphere" /\ ret.eid \in DriverIds /\ Ready)
        => ret.result = Reachable({ret.eid}) \ {ret.eid}

\* C9: no truck has a maintenance on a date on which it has a trip, and no
\* truck has two maintenances on one date.
MaintenanceExclusion ==
    /\ \A m \in maintenance, t \in trip :
          m.tid = t.tid => m.mdate # DateOf(t.ttime)
    /\ \A m, n \in maintenance :
          (m.tid = n.tid /\ m.mdate = n.mdate) => m = n

Qualified(eid, tid) ==
    [eid |-> eid, trucktype |-> Truck[tid].trucktype] \in Driver

\* C10: on every trip schedule_trip and schedule_trips insert, one of the
\* two employees holds, when the trip is inserted, a Driver qualification
\* for the truck type of the trip's truck.
PairingRule ==
    [][ret'.op \in {"schedule_trip", "schedule_trips"}
       => \A t \in trip' \ trip : \E e \in DriversOf(t) : Qualified(e, t.tid)]_vars

\* C10 witness: a batch has inserted a trip whose senior employee cannot
\* drive the truck and whose other employee can.
PairingRuleWitness ==
    /\ Returned("schedule_trips") /\ ret.result > 0
    /\ \E t \in NewTrips :
          /\ t.tid = ret.tid
          /\ Cardinality({ e \in DriversOf(t) : Qualified(e, t.tid) }) = 1
          /\ Cardinality(DriversOf(t)) = 2

\* C11: every inserted trip has two different employees, the larger id in
\* eid1 and the smaller in eid2.
NormalizedPair ==
    \A t \in NewTrips : t.eid1 > t.eid2

\* C12: the truck type of every trip's truck carries the waste type of the
\* trip's route, and the trip's facility accepts that waste type.
WasteTypeConsistency ==
    \A t \in trip :
        /\ t.rid \in DOMAIN Route /\ t.tid \in DOMAIN Truck
        /\ t.fid \in DOMAIN Facility
        /\ TruckType[Truck[t.tid].trucktype] = Route[t.rid].wastetype
        /\ Facility[t.fid] = Route[t.rid].wastetype

\* C12 witness: reroute_waste has moved a scheduled trip to another facility.
WasteTypeConsistencyWitness ==
    /\ Returned("reroute_waste") /\ ret.result > 0
    /\ \E t \in NewTrips : /\ t.fid # ret.fid
                           /\ t.fid = AlternateFacilities(ret.fid)[1]
                           /\ DateOf(t.ttime) = ret.date

\* the trucks of the route's waste type that are available for the window
CandidateTrucks(rid, time) ==
    { tid \in availableTrucks(time, RouteEnd(rid, time)) :
        TruckType[Truck[tid].trucktype] = Route[rid].wastetype }

\* C13: the truck of the trip schedule_trip inserts is, among the available
\* trucks of the route's waste type, one of the greatest capacity, and the
\* lowest id among those; its facility is the lowest id accepting the waste
\* type.
TruckSelection ==
    [][(ret'.op = "schedule_trip" /\ ~ret'.raised /\ ret'.result)
       => \E row \in trip' \ trip :
             /\ row.tid \in CandidateTrucks(ret'.rid, ret'.time)
             /\ \A u \in CandidateTrucks(ret'.rid, ret'.time) :
                   \/ Truck[u].capacity < Truck[row.tid].capacity
                   \/ /\ Truck[u].capacity = Truck[row.tid].capacity
                      /\ row.tid <= u
             /\ row.fid \in DOMAIN Facility
             /\ Facility[row.fid] = Route[ret'.rid].wastetype
             /\ \A f \in DOMAIN Facility :
                   Facility[f] = Route[ret'.rid].wastetype => row.fid <= f]_vars

\* C13 witness: schedule_trip has taken a truck while a truck of a lower id
\* and a smaller capacity, of the same waste type, is free in the window,
\* and an earlier call took the lower id of two trucks of equal capacity.
TruckSelectionWitness ==
    /\ Returned("schedule_trip") /\ ret.result
    /\ \E row \in NewTrips :
          /\ row.rid = ret.rid /\ row.ttime = ret.time
          /\ \E u \in CandidateTrucks(ret.rid, ret.time) :
                u < row.tid /\ Truck[u].capacity < Truck[row.tid].capacity
    /\ \E other \in NewTrips :
          /\ other.ttime # ret.time
          /\ \E u \in DOMAIN Truck :
                /\ u > other.tid
                /\ Truck[u].capacity = Truck[other.tid].capacity
                /\ TruckType[Truck[u].trucktype] = Route[other.rid].wastetype

\* C14: the two employees of the trip schedule_trip inserts are the pair of
\* the selection rule over the available employees ordered by hire date and
\* id: the first employee, and the next employee or, when the first holds
\* no Driver qualification for the truck's type, the first later employee
\* who does; one state and one input give one pair.
DriverSelection ==
    [][(ret'.op = "schedule_trip" /\ ~ret'.raised /\ ret'.result)
       => \E row \in trip' \ trip :
             LET order == OrderByHire({ d.eid : d \in availableEmployees(
                              ret'.time, RouteEnd(ret'.rid, ret'.time)) })
                 holds(e) == [eid |-> e, trucktype |-> Truck[row.tid].trucktype]
                                 \in Driver
                 later == { k \in 2..Len(order) : holds(order[k]) }
             IN  /\ Len(order) >= 2
                 /\ IF holds(order[1])
                    THEN DriversOf(row) = {order[1], order[2]}
                    ELSE /\ later # {}
                         /\ DriversOf(row) = {order[1], order[Min(later)]}]_vars

\* the trips with facility fid on the calendar date
TripsAt(fid, date) ==
    { t \in trip : t.fid = fid /\ DateOf(t.ttime) = date }

\* the other facilities accepting the waste type of fid
OtherFacilities(fid) ==
    { f \in DOMAIN Facility : fid \in DOMAIN Facility
                              /\ Facility[f] = Facility[fid] /\ f # fid }

\* C15: on an open connection whose transaction has not failed, when a trip
\* has facility fid on the date and another facility of the waste type exists,
\* reroute_waste moves every such trip to the lowest-id other facility of
\* the waste type and returns their number; no trip is left at fid on the
\* date, and the same call made again right after it returns 0 and changes
\* nothing.
RerouteAll ==
    [][/\ (/\ ret'.op = "reroute_waste" /\ Ready
           /\ TripsAt(ret'.fid, ret'.date) # {}
           /\ OtherFacilities(ret'.fid) # {})
          => /\ trip' = (trip \ TripsAt(ret'.fid, ret'.date))
                          \cup { [t EXCEPT !.fid = Min(OtherFacilities(ret'.fid))]
                                 : t \in TripsAt(ret'.fid, ret'.date) }
             /\ ret'.result = Cardinality(TripsAt(ret'.fid, ret'.date))
             /\ { t \in trip' : t.fid = ret'.fid
                                 /\ DateOf(t.ttime) = ret'.date } = {}
       /\ (/\ ret.op = "reroute_waste" /\ ret.result > 0
           /\ ret'.op = "reroute_waste" /\ Ready
           /\ ret'.fid = ret.fid /\ ret'.date = ret.date)
          => /\ ret'.result = 0 /\ ~ret'.raised
             /\ trip' = trip]_vars

\* C15 witness: reroute_waste has moved two trips of the date to the lower
\* of two other facilities, trips of another date stay at fid, and the call
\* made again has returned 0 and changed nothing.
RerouteAllWitness ==
    /\ Returned("reroute_waste") /\ ret.result = 0 /\ ~aborted /\ ~fresh
    /\ Cardinality(OtherFacilities(ret.fid)) = 2
    /\ Cardinality(TripsAt(Min(OtherFacilities(ret.fid)), ret.date)
                      \cap NewTrips) = 2
    /\ \A t \in NewTrips : t.fid # ret.fid
    /\ TripsAt(ret.fid, ret.date) = {}
    /\ \E t \in trip : t.fid = ret.fid

\* the Technician rows a file asks for that may be added to the table: the
\* truck type exists, the name is an employee's, who is no driver and does
\* not hold the qualification
NewQualifications(content) ==
    { q \in { [eid |-> e, trucktype |-> content[k].trucktype] :
                 k \in DOMAIN content, e \in DOMAIN Employee } :
        /\ q.trucktype \in DOMAIN TruckType
        /\ \E k \in DOMAIN content :
              /\ content[k].trucktype = q.trucktype
              /\ Employee[q.eid].name = content[k].first \o " " \o content[k].last
        /\ q.eid \notin DriverIds
        /\ q \notin technician }

\* C16: update_technicians, on an open connection whose transaction has not
\* failed, adds a Technician row for exactly the records whose truck type
\* exists, whose name is a known employee's, who is not a driver and does
\* not hold the qualification; the other records are skipped, and the
\* result is the number of rows added.
TechniciansImported ==
    [][(ret'.op = "update_technicians" /\ Ready)
       => /\ technician' = technician \cup NewQualifications(ret'.content)
          /\ ret'.result = Cardinality(technician' \ technician)]_vars

\* C16 witness: a file of an invalid record followed by a valid one has
\* added one row.
TechniciansImportedWitness ==
    /\ Returned("update_technicians") /\ ret.result = 1
    /\ Len(ret.content) = 2
    /\ ret.content[1].trucktype \notin DOMAIN TruckType
    /\ [eid |-> 8, trucktype |-> ret.content[2].trucktype] \in technician
    /\ ret.content[2].first = "Hal"

\* the trucks with a maintenance history whose most recent maintenance is
\* more than 90 days before <date> and which have none from <date> to
\* <date> + 10
Due(date) ==
    { tid \in { m.tid : m \in maintenance } :
        /\ date - Max({ m.mdate : m \in { x \in maintenance : x.tid = tid } })
              > MaintenanceAge
        /\ ~\E m \in maintenance : /\ m.tid = tid
                                    /\ m.mdate >= date
                                    /\ m.mdate <= date + MaintenanceAhead }

\* C17: schedule_maintenance, on an open connection whose transaction has
\* not failed, gives a maintenance to the trucks that are due and whose type
\* has a technician, and to no other truck: not to a truck maintained
\* exactly 90 days before, nor to one with a record ten days after the
\* date, nor to one without a history.
BacklogSelection ==
    [][(ret'.op = "schedule_maintenance" /\ Ready)
       => { m.tid : m \in maintenance' \ maintenance }
            = { tid \in Due(ret'.date) :
                  \E q \in technician :
                      q.trucktype = Truck[tid].trucktype }]_vars

\* C17 witness: a call has scheduled truck 4, maintained 92 days before,
\* and left out truck 1, maintained exactly 90 days before, and truck 3,
\* which has no history.
BacklogSelectionWitness ==
    /\ Returned("schedule_maintenance") /\ ret.result > 0
    /\ \E m \in NewMaintenance : m.tid = 4 /\ m.mdate > ret.date
    /\ \E m \in maintenance : m.tid = 4 /\ ret.date - m.mdate = MaintenanceAge + 2
    /\ \E m \in maintenance : m.tid = 1 /\ ret.date - m.mdate = MaintenanceAge
    /\ ~\E m \in maintenance : m.tid = 1 /\ m.mdate > ret.date
    /\ ~\E m \in maintenance : m.tid = 3

\* the technicians of the truck's type with no maintenance in M on <day>
FreeOn(tid, day, M) ==
    { q.eid : q \in { x \in technician : x.trucktype = Truck[tid].trucktype } }
        \ { m.eid : m \in { x \in M : x.mdate = day } }

\* the record r is the one the rule gives its truck on top of the table M:
\* the first day after <date> with a free technician of the truck's type,
\* and the lowest id among those free that day
RuleRecord(r, date, M) ==
    /\ r.mdate > date
    /\ FreeOn(r.tid, r.mdate, M) # {}
    /\ r.eid = Min(FreeOn(r.tid, r.mdate, M))
    /\ \A day \in (date + 1)..(r.mdate - 1) : FreeOn(r.tid, day, M) = {}

\* C18: schedule_maintenance, on an open connection whose transaction has
\* not failed, inserts one record for each due truck whose type has a
\* technician; taken in the order of insertion, each record is on
\* the first day after the date on which a technician of the truck's type is
\* free, the records inserted before it counted, with the lowest id of the
\* technicians free that day.  (In a transaction that holds no uncommitted
\* rows of setup_more_data, which a call that schedules nothing rolls back.)
MaintenanceAssignment ==
    [][(ret'.op = "schedule_maintenance" /\ Ready /\ ~Pending)
       => LET new == maintenance' \ maintenance IN
          /\ maintenance \subseteq maintenance'
          /\ \A tid \in { t \in Due(ret'.date) :
                              \E q \in technician :
                                  q.trucktype = Truck[t].trucktype } :
                Cardinality({ m \in new : m.tid = tid }) = 1
          /\ \E order \in Perms(new) :
                \A k \in DOMAIN order :
                    RuleRecord(order[k], ret'.date,
                               maintenance \cup { order[j] : j \in 1..(k - 1) })
         ]_vars

\* C18 witness: one call has given two trucks the same technician, the
\* second truck on the day after the first, and a third truck another
\* technician on the first day.
MaintenanceAssignmentWitness ==
    /\ Returned("schedule_maintenance") /\ ret.result >= 3
    /\ \E a, b, c \in NewMaintenance :
          /\ a.mdate = ret.date + 1 /\ b.mdate = ret.date + 2
          /\ a.eid = b.eid /\ a.tid # b.tid
          /\ c.mdate = ret.date + 1 /\ c.eid # a.eid

\* the employees on a trip
OnATrip == UNION { DriversOf(t) : t \in trip }

\* C19: for two drivers who are each on a trip, one is in the workmate
\* sphere of the other iff the other is in the sphere of the one; the sphere
\* of a driver on no trip, and of an id that is no driver, is empty.
SphereSymmetric ==
    /\ \A a, b \in DriverIds \cap OnATrip :
          (b \in workmate_sphere(a).result) <=> (a \in workmate_sphere(b).result)
    /\ (/\ ret.op = "workmate_sphere"
        /\ (ret.eid \notin DriverIds \/ ret.eid \notin OnATrip))
       => ret.result = {}

\* C19 witness: workmate_sphere has returned the empty set for a driver on no
\* trip, in a state with scheduled trips where two drivers two trips apart
\* are in each other's sphere and two drivers three trips apart are not.
SphereSymmetricWitness ==
    /\ Returned("workmate_sphere") /\ ~aborted /\ NewTrips # {}
    /\ ret.eid \in DriverIds \ OnATrip /\ ret.result = {}
    /\ \E a, b \in DriverIds \cap OnATrip :
          /\ b \notin direct_workmate(a)
          /\ b \in workmate_sphere(a).result /\ a \in workmate_sphere(b).result
    /\ \E a, b \in DriverIds \cap OnATrip :
          /\ a # b
          /\ \E x, y \in OnATrip : /\ x \in direct_workmate(a)
                                  /\ y \in direct_workmate(x)
                                  /\ b \in direct_workmate(y)
          /\ b \notin workmate_sphere(a).result
          /\ a \notin workmate_sphere(b).result

\* the routes a batch for the truck may take on the date, in ascending id:
\* those of the truck's waste type with no trip on the date
Candidates(tid, date) ==
    IF tid \notin DOMAIN Truck THEN <<>>
    ELSE SortAsc({ rid \in DOMAIN Route :
                     /\ Route[rid].wastetype = TruckType[Truck[tid].trucktype]
                     /\ ~\E t \in trip : t.rid = rid /\ DateOf(t.ttime) = date })

\* the start of the k-th route of <routes> when they are driven one after
\* the other from 08:00 with half an hour between two trips
RECURSIVE PackedStart(_, _, _)
PackedStart(routes, k, date) ==
    IF k = 1 THEN At(date, WorkStart)
    ELSE RouteEnd(routes[k - 1], PackedStart(routes, k - 1, date)) + BufferMinutes

\* C20: the trips one schedule_trips call inserts are those of the first n
\* candidate routes in ascending route id; the first starts at 08:00, each
\* next one 30 minutes after the end of the one before, each ends before
\* 16:00, and the route after them, if there is one, would end at 16:00 or
\* later: no later route is tried.
Packing ==
    [][ret'.op = "schedule_trips"
       => LET new == trip' \ trip
              cand == Candidates(ret'.tid, ret'.date)
              n == Cardinality(new)
          IN  /\ n <= Len(cand)
              /\ new # {} =>
                  /\ \A k \in 1..n :
                        \E t \in new :
                            /\ t.rid = cand[k] /\ t.tid = ret'.tid
                            /\ t.ttime = PackedStart(cand, k, ret'.date)
                            /\ TripEnd(t) < At(ret'.date, WorkEnd)
                  /\ n < Len(cand) =>
                        RouteEnd(cand[n + 1], PackedStart(cand, n + 1, ret'.date))
                            >= At(ret'.date, WorkEnd)]_vars

\* C20 witness: a batch has inserted the first two of four candidate routes
\* and stopped at the third, which would end at 16:00 sharp, leaving a
\* fourth, shorter one that would fit.
PackingWitness ==
    /\ Returned("schedule_trips") /\ ret.result > 0 /\ ~aborted
    /\ Cardinality({ t \in NewTrips : t.tid = ret.tid }) = 2
    /\ \E a, b \in NewTrips :
          /\ a.rid = 1 /\ a.ttime = At(ret.date, WorkStart)
          /\ b.rid = 14 /\ b.ttime = TripEnd(a) + BufferMinutes
          /\ Candidates(ret.tid, ret.date) = <<16, 17>>
          /\ RouteEnd(16, TripEnd(b) + BufferMinutes) = At(ret.date, WorkEnd)
          /\ RouteEnd(17, TripEnd(b) + BufferMinutes) < At(ret.date, WorkEnd)

\* C21: the records one schedule_maintenance call inserts follow the
\* ascending order of the truck ids: of two trucks given the same
\* technician, the truck with the lower id has the earlier day.
AscendingTruckOrder ==
    [][ret'.op = "schedule_maintenance"
       => \A a, b \in maintenance' \ maintenance :
             (a.eid = b.eid /\ a.tid < b.tid) => a.mdate < b.mdate]_vars

\* C22: no technician has two maintenance records on the same date, and the
\* technician of every record schedule_maintenance has inserted is qualified
\* for the type of the record's truck.
TechnicianExclusive ==
    /\ \A a, b \in maintenance : (a # b /\ a.eid = b.eid) => a.mdate # b.mdate
    /\ \A m \in NewMaintenance :
          [eid |-> m.eid, trucktype |-> Truck[m.tid].trucktype] \in technician

\* C22 witness: one call has inserted records for two trucks of different
\* types with the same technician, on the two days after the date.
TechnicianExclusiveWitness ==
    /\ Returned("schedule_maintenance") /\ ret.result >= 2
    /\ \E a, b \in NewMaintenance :
          /\ a.eid = b.eid /\ a.mdate # b.mdate
          /\ Truck[a.tid].trucktype # Truck[b.tid].trucktype
          /\ a.mdate > ret.date /\ b.mdate > ret.date
          /\ a.mdate <= ret.date + 2 /\ b.mdate <= ret.date + 2

\* C23: every schedule_maintenance call on an open connection whose
\* transaction has not failed returns; its result is the number of due
\* trucks whose type has a technician, each of which has got one record,
\* on a day no further from the date than the number of records in the
\* table: the day search has stopped.
DaySearchEnds ==
    [][(ret'.op = "schedule_maintenance" /\ Ready)
       => LET new == maintenance' \ maintenance
              served == { tid \in Due(ret'.date) :
                            \E q \in technician :
                                q.trucktype = Truck[tid].trucktype }
          IN  /\ ~ret'.raised
              /\ ret'.result = Cardinality(served)
              /\ ret'.result = Cardinality(new)
              /\ \A m \in new : /\ m.mdate > ret'.date
                                /\ m.mdate - ret'.date <= Cardinality(maintenance')
         ]_vars

\* C23 witness: of the due trucks one, truck 2, has no technician of its
\* type and was left out; the call returned 3 and the search of one truck
\* went past a day on which its technician was taken.
DaySearchEndsWitness ==
    /\ Returned("schedule_maintenance") /\ ret.result = 3
    /\ ~\E q \in technician : q.trucktype = Truck[2].trucktype
    /\ \A m \in maintenance : m.tid = 2 => ret.date - m.mdate > MaintenanceAge
    /\ \E m \in NewMaintenance : m.mdate = ret.date + 2
    /\ Cardinality({ m \in maintenance : m.mdate > ret.date /\ m.tid # 3 }) = 3

\* C24: a schedule_maintenance call that directly follows a
\* schedule_maintenance call for the same date returns 0 and leaves the
\* maintenance table as it is.
RepeatSchedulesNothing ==
    [][(/\ ret.op = "schedule_maintenance"
        /\ ret'.op = "schedule_maintenance"
        /\ ret'.date = ret.date)
       => /\ ret'.result = 0
          /\ maintenance' = maintenance]_vars

\* C24 witness: the first call for 2022-09-15 has given trucks 1, 4, 6 and 7
\* a record, and the second call for that date, the last call made, has
\* returned 0 without a change.
RepeatSchedulesNothingWitness ==
    /\ Returned("schedule_maintenance") /\ ret.date = 8293 /\ ret.result = 0
    /\ ~fresh
    /\ technician = BaseTechnicians
    /\ { m.tid : m \in NewMaintenance } = {1, 4, 6, 7}
    /\ \A m \in NewMaintenance : m.mdate > ret.date

\* the boundary case of C25: the trip t ends exactly 30 minutes before
\* <time>, or starts exactly 30 minutes after <trip_end>
Touching(t, time, trip_end) ==
    \/ TripEnd(t) = time - BufferMinutes
    \/ t.ttime = trip_end + BufferMinutes

\* ... 29 minutes
OneMinuteShort(t, time, trip_end) ==
    \/ TripEnd(t) = time - (BufferMinutes - 1)
    \/ t.ttime = trip_end + (BufferMinutes - 1)

\* the start times of a trip of route rid that put it 30 or 29 minutes after
\* the end, or before the start, of the trip t
TimesAround(t, rid) ==
    { TripEnd(t) + BufferMinutes, TripEnd(t) + BufferMinutes - 1,
      t.ttime - BufferMinutes - TripMinutes(Route[rid].length),
      t.ttime - (BufferMinutes - 1) - TripMinutes(Route[rid].length) }

\* the trips of the day of <time> with the truck, or with the driver
TripsOfTruck(tid, time) ==
    { t \in trip : t.tid = tid /\ DateOf(t.ttime) = DateOf(time) }
TripsOfDriver(eid, time) ==
    { t \in trip : eid \in DriversOf(t) /\ DateOf(t.ttime) = DateOf(time) }

\* C25: for a scheduled trip t and a new trip of any route at a start time
\* that puts the two exactly 30 minutes apart, the views of schedule_trip
\* hold the truck of t and the drivers of t when t is their only trip of the
\* day (and the truck has no maintenance that day); at 29 minutes apart they
\* hold neither.
TouchingEndpoints ==
    \A t \in NewTrips : \A rid \in DOMAIN Route : \A time \in TimesAround(t, rid) :
        LET trip_end == RouteEnd(rid, time) IN
        /\ Touching(t, time, trip_end)
             => /\ (/\ TripsOfTruck(t.tid, time) = {t}
                    /\ ~\E m \in maintenance : /\ m.tid = t.tid
                                                /\ m.mdate = DateOf(time))
                      => t.tid \in availableTrucks(time, trip_end)
                /\ \A eid \in DriversOf(t) :
                      TripsOfDriver(eid, time) = {t}
                        => \E d \in availableEmployees(time, trip_end) :
                              d.eid = eid
        /\ OneMinuteShort(t, time, trip_end)
             => /\ t.tid \notin availableTrucks(time, trip_end)
                /\ \A eid \in DriversOf(t) :
                      ~\E d \in availableEmployees(time, trip_end) : d.eid = eid

\* the truck has a maintenance record on the calendar date of <time>
InMaintenance(tid, time) ==
    \E m \in maintenance : m.tid = tid /\ m.mdate = DateOf(time)

\* the truck is on a trip of the view notAval for the window
BusyTruck(tid, time, trip_end) ==
    \E t \in notAval(time, trip_end) : t.tid = tid

\* the trucks whose type carries the waste type of the route
CompatibleTrucks(rid) ==
    { tid \in DOMAIN Truck :
        TruckType[Truck[tid].trucktype] = Route[rid].wastetype }

\* C26: the truck of a trip schedule_trip inserts has no maintenance record
\* on the date of the trip, and a call on an open connection for a route all
\* of whose compatible trucks are in maintenance that day or busy in the
\* window returns False and inserts nothing.
NoTruckInMaintenance ==
    [][(ret'.op = "schedule_trip" /\ conn = "open")
       => /\ \A t \in trip' \ trip : ~InMaintenance(t.tid, t.ttime)
          /\ (/\ ret'.rid \in DOMAIN Route
              /\ \A tid \in CompatibleTrucks(ret'.rid) :
                    \/ InMaintenance(tid, ret'.time)
                    \/ BusyTruck(tid, ret'.time, RouteEnd(ret'.rid, ret'.time)))
             => /\ ret'.result = FALSE /\ ~ret'.raised
                /\ trip' \ trip = {}]_vars

\* C26 witness: of the two trucks for compost one has a maintenance on
\* 2023-05-04 and the other is on a trip at 11:30 of that day; the call for
\* route 18 at 11:30, within the working hours, with no trip of the route
\* that day and a driver of the trucks' type free, has returned False.
NoTruckInMaintenanceWitness ==
    /\ Returned("schedule_trip") /\ ret.result = FALSE /\ ~aborted
    /\ ret.rid = 18 /\ ret.time = At(Min(LoadedDate), 11 * 60 + 30)
    /\ ~SameDayTrip(18, ret.time)
    /\ views \cap TripViews = {}
    /\ CompatibleTrucks(18) = {3, 4}
    /\ \E tid \in CompatibleTrucks(18) :
          /\ InMaintenance(tid, ret.time)
          /\ ~BusyTruck(tid, ret.time, RouteEnd(18, ret.time))
    /\ \E tid \in CompatibleTrucks(18) :
          /\ ~InMaintenance(tid, ret.time)
          /\ BusyTruck(tid, ret.time, RouteEnd(18, ret.time))
    /\ \A tid \in CompatibleTrucks(18) :
          InMaintenance(tid, ret.time) \/ BusyTruck(tid, ret.time, RouteEnd(18, ret.time))
    /\ \E d \in availableEmployees(ret.time, RouteEnd(18, ret.time)) :
          d.trucktype = Truck[3].trucktype

\* C27: no operation removes or changes a row of Trip, Maintenance or
\* Technician, except reroute_waste, which keeps the number of trips, leaves
\* the trips of another facility or date as they are and changes the
\* facility only of the others; it changes nothing and returns 0 when no
\* trip matches or no other facility takes the waste type.  Each operation
\* writes its own table only, and workmate_sphere none; the tables Route,
\* Truck, TruckType, Employee, Driver and Facility are after the call what
\* they were before it.  (For the six operations, in a transaction that
\* holds no uncommitted rows of setup_more_data.)
FrameOfOperations ==
    [][(ret'.op \in Operations /\ ~Pending) =>
       /\ maintenance \subseteq maintenance'
       /\ technician \subseteq technician'
       /\ ret'.op # "reroute_waste" => trip \subseteq trip'
       /\ ret'.op = "reroute_waste"
            => /\ Cardinality(trip') = Cardinality(trip)
               /\ trip \ TripsAt(ret'.fid, ret'.date) \subseteq trip'
               /\ \A t \in TripsAt(ret'.fid, ret'.date) :
                     \E f \in DOMAIN Facility : [t EXCEPT !.fid = f] \in trip'
               /\ (TripsAt(ret'.fid, ret'.date) = {} \/ OtherFacilities(ret'.fid) = {})
                     => trip' = trip /\ ret'.result = 0
               /\ UNCHANGED <<maintenance, technician>>
       /\ ret'.op = "workmate_sphere" => UNCHANGED <<trip, maintenance, technician>>
       /\ ret'.op \in {"schedule_trip", "schedule_trips"}
            => UNCHANGED <<maintenance, technician>>
       /\ ret'.op = "schedule_maintenance" => UNCHANGED <<trip, technician>>
       /\ ret'.op = "update_technicians" => UNCHANGED <<trip, maintenance>>
       /\ Route' = Route /\ Truck' = Truck /\ TruckType' = TruckType
       /\ Employee' = Employee /\ Driver' = Driver /\ Facility' = Facility
      ]_vars

\* C27 witness: after trips, maintenance records and a technician row have
\* been added to the committed rows of setup_more_data, reroute_waste has
\* moved a trip from facility 1 to facility 2; the loaded trips, the
\* maintenance records of the data file and of setup_more_data and a trip
\* of facility 3 are still there.
FrameOfOperationsWitness ==
    /\ Returned("reroute_waste") /\ ret.fid = 1 /\ ret.result >= 1
    /\ ~Pending
    /\ LoadedTrips \subseteq trip
    /\ \E t \in NewTrips : t.fid = 2 /\ DateOf(t.ttime) = ret.date
    /\ \E t \in NewTrips : t.fid = 3
    /\ BaseMaintenance \cup LoadedMaintenance \subseteq maintenance
    /\ NewMaintenance # {}
    /\ BaseTechnicians \subseteq technician
    /\ technician # BaseTechnicians

\* C28: after an update_technicians call on an open connection whose
\* transaction has not failed no technician is a driver, and the call
\* has counted each row it added once: its result is the number of new
\* (employee, truck type) rows, which is at most the number of distinct
\* records of the file.
TechnicianTable ==
    [][(ret'.op = "update_technicians" /\ Ready)
       => /\ \A q \in technician' : q.eid \notin DriverIds
          /\ ret'.result = Cardinality(technician' \ technician)
          /\ ret'.result <= Cardinality({ ret'.content[k] :
                                            k \in DOMAIN ret'.content })]_vars

\* C28 witness: a file with the same valid record twice has added one row
\* and returned 1.
TechnicianTableWitness ==
    /\ Returned("update_technicians") /\ ret.result = 1
    /\ Len(ret.content) = 2 /\ ret.content[1] = ret.content[2]
    /\ \E q \in technician \ BaseTechnicians :
          /\ q.trucktype = ret.content[1].trucktype
          /\ Employee[q.eid].name = ret.content[1].first \o " " \o ret.content[1].last
    /\ Cardinality(technician \ BaseTechnicians) = 1

\* the temporary views of the two scheduling operations
TemporaryViews == {"AvalDriver", "notAval", "availableEmployees", "availableTrucks"}

\* the trips of the date
TripsOn(date) == { t \in trip : DateOf(t.ttime) = date }

\* C29: a schedule_trips call on an open connection that has gone through
\* the packing loop leaves no temporary view behind, in the transaction or
\* in the database, and a schedule_trips call for a truck and a date that
\* are ready (the truck exists and has a route of its waste type without a
\* trip on the date, a facility takes the waste type, and two drivers
\* without a trip on the date, one of them qualified for the truck's type,
\* are there) inserts trips and returns a positive count.
RepeatedBatch ==
    [][(ret'.op = "schedule_trips" /\ conn = "open")
       => /\ ret'.result > 0
               => /\ views' \cap TemporaryViews = {}
                  /\ savedViews' \cap TemporaryViews = {}
          /\ (/\ ret'.tid \in DOMAIN Truck
              /\ \E rid \in DOMAIN Route :
                    /\ Route[rid].wastetype = TruckType[Truck[ret'.tid].trucktype]
                    /\ ~\E t \in trip : /\ t.rid = rid
                                        /\ DateOf(t.ttime) = ret'.date
              /\ \E f \in DOMAIN Facility :
                    Facility[f] = TruckType[Truck[ret'.tid].trucktype]
              /\ \E a, b \in DriverIds
                        \ UNION { DriversOf(t) : t \in TripsOn(ret'.date) } :
                    /\ a # b
                    /\ [eid |-> a, trucktype |-> Truck[ret'.tid].trucktype]
                          \in Driver)
               => /\ ret'.result > 0
                  /\ trip' # trip /\ trip \subseteq trip']_vars

\* C30: when an operation called on an open connection whose transaction
\* has not failed returns, the transaction is over: it is not in the failed
\* state, and the views and rows of the transaction are those of the
\* committed database.
TransactionEnded ==
    [][(ret'.op \in Operations /\ ~ret'.raised /\ Ready)
       => /\ ~aborted'
          /\ views' = savedViews'
          /\ trip' = savedTrip' /\ maintenance' = savedMaintenance']_vars

\* C31: every trip the scheduling operations have inserted starts at or
\* after 08:00 and strictly before 16:00 of its day.
StartBeforeSixteen ==
    \A t \in NewTrips : /\ t.ttime >= At(DateOf(t.ttime), WorkStart)
                        /\ t.ttime < At(DateOf(t.ttime), WorkEnd)

====
